---- MODULE Spec2Model ----
(***************************************************************************)
(* Model of the tool dispatcher of the Bitbucket Server MCP server          *)
(* (src/src/bitbucket-server.ts) and of the operation handlers it calls     *)
(* (bitbucket-api.ts).  One tool call is followed from the arrival of the   *)
(* request, through project resolution, validation and the single outbound  *)
(* HTTP request, to its result envelope or its thrown error.                *)
(*                                                                         *)
(* JavaScript values are records [k, s, n, l]: k is the kind ("undefined",  *)
(* "null", "string", "number", "array"), s the string, n the number and l   *)
(* the array elements.  Strings that the code takes apart character by      *)
(* character (reviewer names, BITBUCKET_DEFAULT_REVIEWERS) are sequences of *)
(* one-character strings.                                                   *)
(***************************************************************************)
EXTENDS Integers, Sequences, FiniteSets, TLC

VARIABLES env, server, listing, call, http, reply, outcome, pending

vars == <<env, server, listing, call, http, reply, outcome, pending>>

(***************************************************************************)
(* Bounds of the model.                                                     *)
(***************************************************************************)
MaxPrId == 1
MaxReviewers == 2
MaxActivities == 2
MaxCalls == 2

(***************************************************************************)
(* JavaScript values and the operators the dispatcher applies to them.      *)
(***************************************************************************)
Undef == [k |-> "undefined", s |-> "", n |-> 0, l |-> <<>>]
Null == [k |-> "null", s |-> "", n |-> 0, l |-> <<>>]
Str(x) == [k |-> "string", s |-> x, n |-> 0, l |-> <<>>]
Num(x) == [k |-> "number", s |-> "", n |-> x, l |-> <<>>]
Arr(x) == [k |-> "array", s |-> "", n |-> 0, l |-> x]

\* !!v
Truthy(v) ==
  CASE v.k = "undefined" -> FALSE
    [] v.k = "null" -> FALSE
    [] v.k = "string" -> v.s # ""
    [] v.k = "number" -> v.n # 0
    [] OTHER -> TRUE

\* a ?? b
Coalesce(a, b) == IF a.k \in {"undefined", "null"} THEN b ELSE a

\* typeof v === 'string'
IsString(v) == v.k = "string"

\* Array.isArray(v)
IsArray(v) == v.k = "array"

\* `${v}` inside a template literal
Template(v) ==
  CASE v.k = "undefined" -> "undefined"
    [] v.k = "null" -> "null"
    [] v.k = "string" -> v.s
    [] v.k = "number" -> ToString(v.n)
    [] OTHER -> "[array]"

(***************************************************************************)
(* defaultReviewers.split(',').map(r => r.trim()).filter(Boolean)           *)
(***************************************************************************)
Whitespace == {" ", "\t"}

RECURSIVE SplitFrom(_, _, _)
\* the pieces of chars[i..] cut at every sep; cur is the piece being read
SplitFrom(chars, sep, cur) ==
  IF chars = <<>> THEN <<cur>>
  ELSE IF Head(chars) = sep
       THEN <<cur>> \o SplitFrom(Tail(chars), sep, <<>>)
       ELSE SplitFrom(Tail(chars), sep, Append(cur, Head(chars)))

Split(chars, sep) == SplitFrom(chars, sep, <<>>)

RECURSIVE TrimStart(_)
TrimStart(chars) ==
  IF chars # <<>> /\ Head(chars) \in Whitespace THEN TrimStart(Tail(chars))
  ELSE chars

RECURSIVE TrimEnd(_)
TrimEnd(chars) ==
  IF chars # <<>> /\ chars[Len(chars)] \in Whitespace
  THEN TrimEnd(SubSeq(chars, 1, Len(chars) - 1))
  ELSE chars

\* trimEnd() in place of trim()
Trim_endOnly(chars) == TrimEnd(chars)

Trim(chars) == TrimEnd(TrimStart(chars))

RECURSIVE FilterBoolean(_)
\* filter(Boolean) on an array of strings: drops the empty ones
FilterBoolean(list) ==
  IF list = <<>> THEN <<>>
  ELSE IF Head(list) # <<>> THEN <<Head(list)>> \o FilterBoolean(Tail(list))
       ELSE FilterBoolean(Tail(list))

ParseDefaultReviewers(chars) ==
  LET pieces == Split(chars, ",")
  IN FilterBoolean([i \in 1..Len(pieces) |-> Trim(pieces[i])])

(***************************************************************************)
(* Environment and construction.                                            *)
(***************************************************************************)
Alice == <<"a", "l", "i", "c", "e">>
Bob == <<"b", "o", "b">>

\* BITBUCKET_DEFAULT_REVIEWERS: unset, or a string given character by character
NoReviewersEnv == [set |-> FALSE, chars |-> <<>>]
ReviewersEnv(chars) == [set |-> TRUE, chars |-> chars]

DefaultReviewersChoices ==
  { NoReviewersEnv,
    ReviewersEnv(<<>>),
    ReviewersEnv(Alice \o <<",", " ">> \o Bob),
    ReviewersEnv(<<" ", ",">> \o Bob \o <<"\t", ",", ",">>),
    ReviewersEnv(<<" ", ",", " ">>) }

EnvOf(url, token, username, password, defaultProject, defaultReviewers) ==
  [ BITBUCKET_URL |-> url,
    BITBUCKET_TOKEN |-> token,
    BITBUCKET_USERNAME |-> username,
    BITBUCKET_PASSWORD |-> password,
    BITBUCKET_DEFAULT_PROJECT |-> defaultProject,
    BITBUCKET_DEFAULT_REVIEWERS |-> defaultReviewers ]

\* the environments the server is started in: every credential shape with
\* one default project, and every default project and reviewer string with
\* one credential
EnvChoices ==
  { EnvOf(url, token, username, password, Str("DEF"), NoReviewersEnv) :
      url \in {Undef, Str(""), Str("https://bb")},
      token \in {Undef, Str(""), Str("tok")},
      username \in {Undef, Str("u")},
      password \in {Undef, Str(""), Str("pw")} }
  \cup
  { EnvOf(Str("https://bb"), Str("tok"), Undef, Undef, dp, dr) :
      dp \in {Undef, Str(""), Str("DEF")},
      dr \in DefaultReviewersChoices }

NoConfig ==
  [ baseUrl |-> Undef, token |-> Undef, username |-> Undef,
    password |-> Undef, defaultProject |-> Undef ]

NoApi == [ bearer |-> Undef, authUser |-> Undef, authPassword |-> Undef ]

\* this.config = {...}
LoadConfig(e) ==
  [ baseUrl |-> Coalesce(e.BITBUCKET_URL, Str("")),
    token |-> e.BITBUCKET_TOKEN,
    username |-> e.BITBUCKET_USERNAME,
    password |-> e.BITBUCKET_PASSWORD,
    defaultProject |-> e.BITBUCKET_DEFAULT_PROJECT ]

\* a credential check that takes a user name alone for basic authentication
ConfigInvalid_userOnly(config) ==
  \/ ~Truthy(config.baseUrl)
  \/ ~Truthy(config.token) /\ ~Truthy(config.username)

\* the two checks of the constructor: TRUE when it throws
ConfigInvalid(config) ==
  \/ ~Truthy(config.baseUrl)
  \/ ~Truthy(config.token) /\ ~(Truthy(config.username) /\ Truthy(config.password))

\* axios.create({baseURL, headers, auth})
CreateApi(config) ==
  [ bearer |-> IF Truthy(config.token) THEN config.token ELSE Undef,
    authUser |-> IF Truthy(config.username) /\ Truthy(config.password)
                 THEN config.username ELSE Undef,
    authPassword |-> IF Truthy(config.username) /\ Truthy(config.password)
                     THEN config.password ELSE Undef ]

NoAuthorization == [scheme |-> "none", token |-> Undef, user |-> Undef, password |-> Undef]

\* the Authorization header of a request sent through the client: axios puts
\* the Basic header of `auth` in the place of an Authorization header given in
\* `headers`
Authorization(api) ==
  IF api.authUser.k # "undefined"
  THEN [scheme |-> "Basic", token |-> Undef, user |-> api.authUser,
        password |-> api.authPassword]
  ELSE IF api.bearer.k # "undefined"
       THEN [scheme |-> "Bearer", token |-> api.bearer, user |-> Undef,
             password |-> Undef]
       ELSE NoAuthorization

(***************************************************************************)
(* Outbound requests, as the operation handlers build them                  *)
(* (bitbucket-api.ts).  A path is the sequence of its segments.             *)
(***************************************************************************)
NoBody == [none |-> TRUE]
NoParams == [none |-> TRUE]

Req(method, path, body, params, accept) ==
  [method |-> method, path |-> path, body |-> body, params |-> params,
   accept |-> accept]

Get(path) == Req("GET", path, NoBody, NoParams, "")
Post(path, body) == Req("POST", path, body, NoParams, "")

RepoPath(project, repository) ==
  <<"projects", Template(project), "repos", Template(repository)>>

PullRequestPath(params) ==
  RepoPath(params.project, params.repository)
    \o <<"pull-requests", Template(params.prId)>>

\* input.reviewers?.map(username => ({ user: { name: username } }))
ReviewersPayload(reviewers) ==
  IF reviewers.k \in {"undefined", "null"}
  THEN [present |-> FALSE, list |-> <<>>]
  ELSE [present |-> TRUE,
        list |-> [i \in 1..Len(reviewers.l) |-> [user |-> [name |-> reviewers.l[i]]]]]

RefOf(branch, input) ==
  [ id |-> <<"refs/heads/", Template(branch)>>,
    repository |-> [ slug |-> input.repository,
                     project |-> [key |-> input.project] ] ]

createPullRequest(input) ==
  Post(RepoPath(input.project, input.repository) \o <<"pull-requests">>,
       [ title |-> input.title,
         description |-> input.description,
         fromRef |-> RefOf(input.sourceBranch, input),
         toRef |-> RefOf(input.targetBranch, input),
         reviewers |-> ReviewersPayload(input.reviewers) ])

getPullRequest(params) == Get(PullRequestPath(params))

\* a merge that always asks for a merge commit
mergePullRequest_fixedStrategy(params, options) ==
  Post(PullRequestPath(params) \o <<"merge">>,
       [ version |-> -1,
         message |-> options.message,
         strategy |-> Str("merge-commit") ])

\* const { message, strategy = 'merge-commit' } = options
mergePullRequest(params, options) ==
  Post(PullRequestPath(params) \o <<"merge">>,
       [ version |-> -1,
         message |-> options.message,
         strategy |-> IF options.strategy.k = "undefined"
                      THEN Str("merge-commit") ELSE options.strategy ])

\* a decline that does not forward the message
declinePullRequest_noMessage(params, message) ==
  Post(PullRequestPath(params) \o <<"decline">>,
       [ version |-> -1, message |-> Undef ])

declinePullRequest(params, message) ==
  Post(PullRequestPath(params) \o <<"decline">>,
       [ version |-> -1, message |-> message ])

\* parent: parentId ? { id: parentId } : undefined
ParentOf(parentId) == IF Truthy(parentId) THEN [id |-> parentId] ELSE [id |-> Undef]

addComment(params, options) ==
  Post(PullRequestPath(params) \o <<"comments">>,
       [ text |-> options.text, parent |-> ParentOf(options.parentId) ])

\* a default taken whenever the context lines are falsy
getDiff_falsyDefault(params, contextLines) ==
  Req("GET", PullRequestPath(params) \o <<"diff">>, NoBody,
      [contextLines |-> IF Truthy(contextLines) THEN contextLines ELSE Num(10)],
      "text/plain")

\* contextLines: number = 10
getDiff(params, contextLines) ==
  Req("GET", PullRequestPath(params) \o <<"diff">>, NoBody,
      [contextLines |-> IF contextLines.k = "undefined" THEN Num(10) ELSE contextLines],
      "text/plain")

\* a reviews request to a resource of its own
getReviews_reviewsPath(params) == Get(PullRequestPath(params) \o <<"reviews">>)

getReviews(params) == Get(PullRequestPath(params) \o <<"activities">>)

listRepositories(project) == Get(<<"projects", Template(project), "repos">>)

listPullRequests(project, repository) ==
  Get(RepoPath(project, repository) \o <<"pull-requests">>)

listBranches(project, repository) ==
  Get(RepoPath(project, repository) \o <<"branches">>)

getRepositoryDetails(project, repository) == Get(RepoPath(project, repository))

(***************************************************************************)
(* addInlineComment.  A string that the handler cuts into lines is a value  *)
(* of kind "text": l holds its lines, each a sequence of string pieces.     *)
(***************************************************************************)
Text(lines) == [k |-> "text", s |-> "", n |-> 0, l |-> lines]

\* truthiness of a value that may be a multi-line string
TruthyText(v) == IF v.k = "text" THEN v.l # <<>> /\ v.l # << <<>> >> ELSE Truthy(v)

\* v.split('\n')
SplitLines(v) == IF v.k = "text" THEN v.l ELSE << <<Template(v)>> >>

\* lines.map(l => `${prefix}${l}`)
PrefixLines(prefix, lines) == [i \in 1..Len(lines) |-> <<prefix>> \o lines[i]]

\* text || `Suggestion for ${filePath} at line ${line}`
SuggestionTitle(text, filePath, line) ==
  IF Truthy(text) THEN <<Template(text)>>
  ELSE <<"Suggestion for ", Template(filePath), " at line ", Template(line)>>

\* the three backquotes that open and close a fenced block
Fence == "<fence>"

\* the comment text built when suggestedCode is present
SuggestionText(options) ==
  Text( << SuggestionTitle(options.text, options.filePath, options.line), <<>>,
           <<Fence, "diff">> >>
        \o (IF TruthyText(options.originalCode)
            THEN PrefixLines("- ", SplitLines(options.originalCode)) ELSE <<>>)
        \o PrefixLines("+ ", SplitLines(options.suggestedCode))
        \o << <<Fence>>, <<>>, <<"Suggested code:">>, <<Fence>> >>
        \o SplitLines(options.suggestedCode)
        \o << <<Fence>> >> )

\* an anchor that takes the columns as soon as one of them is there
AnchorColumns_either(startColumn, endColumn) ==
  IF Truthy(startColumn) \/ Truthy(endColumn)
  THEN [present |-> TRUE, startColumn |-> startColumn, endColumn |-> endColumn]
  ELSE [present |-> FALSE, startColumn |-> Undef, endColumn |-> Undef]

\* ...(startColumn && endColumn ? { startColumn, endColumn } : {})
AnchorColumns(startColumn, endColumn) ==
  IF Truthy(startColumn) /\ Truthy(endColumn)
  THEN [present |-> TRUE, startColumn |-> startColumn, endColumn |-> endColumn]
  ELSE [present |-> FALSE, startColumn |-> Undef, endColumn |-> Undef]

addInlineComment(params, options) ==
  Post(PullRequestPath(params) \o <<"comments">>,
       [ text |-> IF TruthyText(options.suggestedCode)
                  THEN SuggestionText(options) ELSE options.text,
         anchor |-> [ diffType |-> "EFFECTIVE",
                      path |-> options.filePath,
                      lineType |-> IF options.lineType.k = "undefined"
                                   THEN Str("CONTEXT") ELSE options.lineType,
                      line |-> options.line,
                      fileType |-> "TO",
                      columns |-> AnchorColumns(options.startColumn, options.endColumn) ],
         parent |-> ParentOf(options.parentId) ])

(***************************************************************************)
(* Errors, response bodies and result envelopes.                            *)
(***************************************************************************)
\* a response body: an object (with or without message and values), the
\* JSON value null, or a string
Body(k, message, hasValues, values, raw) ==
  [k |-> k, message |-> message, hasValues |-> hasValues, values |-> values,
   raw |-> raw]

NoData == Body("none", Undef, FALSE, <<>>, "")

Activity(action, id) == [action |-> action, id |-> id]

ErrorOf(class, code, message, hasResponse, data) ==
  [class |-> class, code |-> code, message |-> message,
   hasResponse |-> hasResponse, data |-> data]

NoError == ErrorOf("none", "", <<>>, FALSE, NoData)

McpError(code, message) == ErrorOf("McpError", code, message, FALSE, NoData)

TypeError(message) == ErrorOf("TypeError", "", message, FALSE, NoData)

AxiosError(message, hasResponse, data) ==
  ErrorOf("AxiosError", "", <<message>>, hasResponse, data)

\* axios.isAxiosError(error)
isAxiosError(error) == error.class = "AxiosError"

\* a catch block that reports every error as an internal error
CatchError_wrapAll(error) ==
  McpError("InternalError", <<"Bitbucket API error: ">> \o error.message)

\* the catch block of the CallTool handler: the error the call ends with
CatchError(error) ==
  IF isAxiosError(error)
  THEN IF error.hasResponse /\ error.data.k = "null"
       THEN TypeError(<<"Cannot read properties of null (reading 'message')">>)
       ELSE LET remote == IF error.hasResponse /\ error.data.k = "object"
                          THEN error.data.message ELSE Undef
                chosen == IF remote.k \in {"undefined", "null"}
                          THEN error.message
                          ELSE <<Template(remote)>>
            IN McpError("InternalError", <<"Bitbucket API error: ">> \o chosen)
  ELSE error

\* JSON.stringify(data, null, 2)
JsonStringify(data) == [fmt |-> "json", data |-> data]

\* a diff text that is serialized as the other handlers serialize
RawText_serialized(data) == [fmt |-> "json", data |-> data]

RawText(data) == [fmt |-> "raw", data |-> data]

TextItem(text) == [type |-> "text", text |-> text]

\* a filter that keeps the approvals only
FilterReviews_approvedOnly(values) ==
  SelectSeq(values, LAMBDA a : a.action = "APPROVED")

RECURSIVE FilterReviews(_)
\* values.filter(a => a.action === 'APPROVED' || a.action === 'REVIEWED')
FilterReviews(values) ==
  IF values = <<>> THEN <<>>
  ELSE IF Head(values).action \in {"APPROVED", "REVIEWED"}
       THEN <<Head(values)>> \o FilterReviews(Tail(values))
       ELSE FilterReviews(Tail(values))

Shaped(throws, error, content) ==
  [throws |-> throws, error |-> error, content |-> content]

\* what a handler does with the response of its request
ShapeResponse(handler, data) ==
  CASE handler = "getDiff" ->
         Shaped(FALSE, NoError, <<TextItem(RawText(data))>>)
    [] handler = "getReviews" ->
         IF data.k = "object" /\ data.hasValues
         THEN Shaped(FALSE, NoError,
                <<TextItem(JsonStringify(
                    Body("array", Undef, TRUE, FilterReviews(data.values), "")))>>)
         ELSE Shaped(TRUE,
                TypeError(IF data.k = "null"
                          THEN <<"Cannot read properties of null (reading 'values')">>
                          ELSE <<"Cannot read properties of undefined (reading 'filter')">>),
                <<>>)
    [] OTHER ->
         Shaped(FALSE, NoError, <<TextItem(JsonStringify(data))>>)

(***************************************************************************)
(* The CallTool handler of src/src/bitbucket-server.ts.                     *)
(***************************************************************************)
NoArgs ==
  [ project |-> Undef, repository |-> Undef, prId |-> Undef, title |-> Undef,
    description |-> Undef, sourceBranch |-> Undef, targetBranch |-> Undef,
    reviewers |-> Undef, message |-> Undef, strategy |-> Undef, text |-> Undef,
    parentId |-> Undef, contextLines |-> Undef, filePath |-> Undef,
    line |-> Undef, lineType |-> Undef, startColumn |-> Undef,
    endColumn |-> Undef, suggestedCode |-> Undef ]

\* the guard without its title conjunct
isPullRequestInput_noTitle(args) ==
  /\ IsString(args.project)
  /\ IsString(args.repository)
  /\ IsString(args.sourceBranch)
  /\ IsString(args.targetBranch)
  /\ (args.description.k = "undefined" \/ IsString(args.description))
  /\ (args.reviewers.k = "undefined" \/ IsArray(args.reviewers))

isPullRequestInput(args) ==
  /\ IsString(args.project)
  /\ IsString(args.repository)
  /\ IsString(args.title)
  /\ IsString(args.sourceBranch)
  /\ IsString(args.targetBranch)
  /\ (args.description.k = "undefined" \/ IsString(args.description))
  /\ (args.reviewers.k = "undefined" \/ IsArray(args.reviewers))

\* the operands of ?? exchanged
pullRequestParams_defaultFirst(args, config) ==
  [ project |-> Coalesce(config.defaultProject, args.project),
    repository |-> args.repository,
    prId |-> args.prId ]

\* const pullRequestParams = { project: args.project ?? defaultProject, ... }
pullRequestParams(args, config) ==
  [ project |-> Coalesce(args.project, config.defaultProject),
    repository |-> args.repository,
    prId |-> args.prId ]

\* the check as `=== null` would make it
ProjectMissing_nullOnly(params) == params.project.k = "null"

\* if (!pullRequestParams.project)
ProjectMissing(params) == ~Truthy(params.project)

\* the list_* guards: !args.project || typeof args.project !== 'string'
ProjectArgInvalid(args) == ~Truthy(args.project) \/ ~IsString(args.project)

RepositoryArgInvalid(args) == ~Truthy(args.repository) \/ ~IsString(args.repository)

\* default reviewers that take the place of the reviewers of the call
WithDefaultReviewers_always(args, e) ==
  IF e.BITBUCKET_DEFAULT_REVIEWERS.set /\ e.BITBUCKET_DEFAULT_REVIEWERS.chars # <<>>
  THEN [args EXCEPT !.reviewers =
          Arr(ParseDefaultReviewers(e.BITBUCKET_DEFAULT_REVIEWERS.chars))]
  ELSE args

\* create_pull_request: reviewers taken from BITBUCKET_DEFAULT_REVIEWERS
WithDefaultReviewers(args, e) ==
  IF ~IsArray(args.reviewers) \/ Len(args.reviewers.l) = 0
  THEN IF e.BITBUCKET_DEFAULT_REVIEWERS.set /\ e.BITBUCKET_DEFAULT_REVIEWERS.chars # <<>>
       THEN [args EXCEPT !.reviewers =
               Arr(ParseDefaultReviewers(e.BITBUCKET_DEFAULT_REVIEWERS.chars))]
       ELSE args
  ELSE args

NoReq == Req("", <<>>, NoBody, NoParams, "")

Throw(error, args) ==
  [throws |-> TRUE, error |-> error, handler |-> "", req |-> NoReq, args |-> args]

Invoke(handler, req, args) ==
  [throws |-> FALSE, error |-> NoError, handler |-> handler, req |-> req,
   args |-> args]

\* options that leave the line type of the call behind
InlineOptions_noLineType(args) ==
  [ text |-> args.text, filePath |-> args.filePath, line |-> args.line,
    lineType |-> Undef, startColumn |-> args.startColumn,
    endColumn |-> args.endColumn, parentId |-> args.parentId,
    suggestedCode |-> Undef, originalCode |-> Undef ]

InlineOptions(args) ==
  [ text |-> args.text, filePath |-> args.filePath, line |-> args.line,
    lineType |-> args.lineType, startColumn |-> args.startColumn,
    endColumn |-> args.endColumn, parentId |-> args.parentId,
    suggestedCode |-> Undef, originalCode |-> Undef ]

\* options that hand the suggestion over as the original code too
SuggestOptions_withOriginal(args) ==
  [ text |-> args.message, filePath |-> args.filePath, line |-> args.line,
    lineType |-> args.lineType, startColumn |-> Undef, endColumn |-> Undef,
    parentId |-> args.parentId, suggestedCode |-> args.suggestedCode,
    originalCode |-> args.suggestedCode ]

SuggestOptions(args) ==
  [ text |-> args.message, filePath |-> args.filePath, line |-> args.line,
    lineType |-> args.lineType, startColumn |-> Undef, endColumn |-> Undef,
    parentId |-> args.parentId, suggestedCode |-> args.suggestedCode,
    originalCode |-> Undef ]

\* a default case that reports the unknown name as invalid parameters
UnknownTool_invalidParams(name, args) ==
  Throw(McpError("InvalidParams", <<"Unknown tool: ", name>>), args)

\* the default case of the switch
UnknownTool(name, args) ==
  Throw(McpError("MethodNotFound", <<"Unknown tool: ", name>>), args)

\* the switch on request.params.name
Route(name, args, params, e) ==
  CASE name = "list_repositories" ->
         IF ProjectArgInvalid(args)
         THEN Throw(McpError("InvalidParams", <<"Project key is required">>), args)
         ELSE Invoke("listRepositories", listRepositories(args.project), args)
    [] name = "list_pull_requests" ->
         IF ProjectArgInvalid(args) \/ RepositoryArgInvalid(args)
         THEN Throw(McpError("InvalidParams", <<"Project and repository are required">>), args)
         ELSE Invoke("listPullRequests", listPullRequests(args.project, args.repository), args)
    [] name = "list_branches" ->
         IF ProjectArgInvalid(args) \/ RepositoryArgInvalid(args)
         THEN Throw(McpError("InvalidParams", <<"Project and repository are required">>), args)
         ELSE Invoke("listBranches", listBranches(args.project, args.repository), args)
    [] name = "get_repository_details" ->
         IF ProjectArgInvalid(args) \/ RepositoryArgInvalid(args)
         THEN Throw(McpError("InvalidParams", <<"Project and repository are required">>), args)
         ELSE Invoke("getRepositoryDetails",
                     getRepositoryDetails(args.project, args.repository), args)
    [] name = "create_pull_request" ->
         LET input == WithDefaultReviewers(args, e)
         IN IF ~isPullRequestInput(input)
            THEN Throw(McpError("InvalidParams",
                                <<"Invalid pull request input parameters">>), input)
            ELSE Invoke("createPullRequest", createPullRequest(input), input)
    [] name = "get_pull_request" ->
         Invoke("getPullRequest", getPullRequest(params), args)
    [] name = "merge_pull_request" ->
         Invoke("mergePullRequest",
                mergePullRequest(params, [message |-> args.message,
                                          strategy |-> args.strategy]), args)
    [] name = "decline_pull_request" ->
         Invoke("declinePullRequest", declinePullRequest(params, args.message), args)
    [] name = "add_comment" ->
         Invoke("addComment",
                addComment(params, [text |-> args.text, parentId |-> args.parentId]),
                args)
    [] name = "get_diff" ->
         Invoke("getDiff", getDiff(params, args.contextLines), args)
    [] name = "get_reviews" ->
         Invoke("getReviews", getReviews(params), args)
    [] name = "add_inline_comment" ->
         Invoke("addInlineComment", addInlineComment(params, InlineOptions(args)), args)
    [] name = "suggest_code_change" ->
         Invoke("addInlineComment", addInlineComment(params, SuggestOptions(args)), args)
    [] name = "delete_pull_request" ->
         Invoke("declinePullRequest", declinePullRequest(params, args.message), args)
    [] OTHER -> UnknownTool(name, args)

ProjectRequiredMessage ==
  <<"Project must be provided either as a parameter or through BITBUCKET_DEFAULT_PROJECT environment variable">>

\* the body of the try block up to the handler's request
Dispatch(name, args, config, e) ==
  LET params == pullRequestParams(args, config)
  IN IF ProjectMissing(params)
     THEN Throw(McpError("InvalidParams", ProjectRequiredMessage), args)
     ELSE Route(name, args, params, e)

(***************************************************************************)
(* The CallTool handler of the other version of the server                  *)
(* (src/unnamed/part_000), up to the handler's request.  It returns an      *)
(* error item where the handler above throws.                               *)
(***************************************************************************)
\* a result of one item of type "error": no handler is called
VariantError(text, args) ==
  [throws |-> FALSE, error |-> NoError, handler |-> "", req |-> NoReq, args |-> args]

\* the tools whose handlers are not among the sources
VariantOnlyNames ==
  { "get_repository_archive", "get_pull_request_comments",
    "approve_pull_request", "unapprove_pull_request" }

\* the names for which the variant asks for a project
VariantNames ==
  { "list_repositories", "create_pull_request", "list_pull_requests",
    "list_branches", "get_repository_details", "get_pull_request",
    "merge_pull_request", "decline_pull_request", "add_comment", "get_diff",
    "get_reviews", "add_inline_comment", "suggest_code_change",
    "delete_pull_request", "get_repository_archive",
    "get_pull_request_comments", "approve_pull_request",
    "unapprove_pull_request" }

VariantDispatch(name, args, config) ==
  LET project == Coalesce(args.project, config.defaultProject)
      prParams == [project |-> project, repository |-> args.repository,
                   prId |-> args.prId]
  IN IF ~Truthy(project) /\ name \in VariantNames
     THEN VariantError(<<"Project key is required if BITBUCKET_DEFAULT_PROJECT is not set.">>, args)
     ELSE
       CASE name = "list_repositories" ->
              Invoke("listRepositories", listRepositories(project), args)
         [] name = "list_pull_requests" ->
              Invoke("listPullRequests", listPullRequests(project, args.repository), args)
         [] name = "list_branches" ->
              Invoke("listBranches", listBranches(project, args.repository), args)
         [] name = "get_repository_details" ->
              Invoke("getRepositoryDetails",
                     getRepositoryDetails(project, args.repository), args)
         [] name = "create_pull_request" ->
              IF isPullRequestInput(args)
              THEN Invoke("createPullRequest",
                          createPullRequest([args EXCEPT !.project = project]), args)
              ELSE VariantError(<<"Invalid input for create_pull_request">>, args)
         [] name = "get_pull_request" ->
              Invoke("getPullRequest", getPullRequest(prParams), args)
         [] name = "merge_pull_request" ->
              Invoke("mergePullRequest",
                     mergePullRequest(prParams, [message |-> args.message,
                                                 strategy |-> args.strategy]), args)
         [] name \in {"decline_pull_request", "delete_pull_request"} ->
              Invoke("declinePullRequest", declinePullRequest(prParams, args.message), args)
         [] name = "add_comment" ->
              Invoke("addComment",
                     addComment(prParams, [text |-> args.text,
                                           parentId |-> args.parentId]), args)
         [] name = "get_diff" ->
              Invoke("getDiff", getDiff(prParams, args.contextLines), args)
         [] name = "get_reviews" ->
              Invoke("getReviews", getReviews(prParams), args)
         [] name = "add_inline_comment" ->
              Invoke("addInlineComment",
                     addInlineComment(prParams, InlineOptions(args)), args)
         [] name = "suggest_code_change" ->
              Invoke("addInlineComment",
                     addInlineComment(prParams, SuggestOptions(args)), args)
         [] name \in VariantOnlyNames ->
              \* the request is built by a handler that is not among the
              \* sources: it is left open
              Invoke(name, NoReq, args)
         [] OTHER -> VariantError(<<"Unknown tool: ", name>>, args)

\* the requests the other version issues for a call
VariantRequests(name, args, config) ==
  LET d == VariantDispatch(name, args, config)
  IN IF d.handler = "" THEN <<>> ELSE <<d.req>>

(***************************************************************************)
(* The tool calls and the responses the model draws from.                   *)
(***************************************************************************)
ProjectVals == {Undef, Null, Str(""), Str("PRJ"), Num(5)}
RepositoryVals == {Undef, Str("repo"), Num(3)}
PrIdVals == {Undef} \cup {Num(i) : i \in 0..MaxPrId}
ColumnVals == {Undef, Num(0), Num(5)}

RECURSIVE ReviewerLists(_)
ReviewerLists(n) ==
  IF n = 0 THEN {<<>>}
  ELSE ReviewerLists(n - 1)
       \cup {Append(l, r) : l \in {x \in ReviewerLists(n - 1) : Len(x) = n - 1},
                            r \in {Alice, Bob}}

ReviewersVals == {Undef, Str("bob")} \cup {Arr(l) : l \in ReviewerLists(MaxReviewers)}

SuggestedCodeVals ==
  {Undef, Str(""), Str("foo();"), Text(<< <<"a = 1;">>, <<"b = 2;">> >>)}

RefArgs == {[NoArgs EXCEPT !.project = p, !.repository = r, !.prId = i] :
              p \in ProjectVals, r \in RepositoryVals, i \in PrIdVals}

NarrowRefArgs ==
  {a \in RefArgs : /\ a.project \in {Undef, Str("PRJ")}
                    /\ a.repository.k # "number"
                    /\ a.prId # Num(0)}

ArgsChoices(name) ==
  CASE name = "list_repositories" ->
         {[NoArgs EXCEPT !.project = p] : p \in ProjectVals}
    [] name \in {"list_pull_requests", "list_branches", "get_repository_details"} ->
         {[NoArgs EXCEPT !.project = p, !.repository = r] :
            p \in ProjectVals, r \in RepositoryVals \cup {Str("")}}
    [] name = "create_pull_request" ->
         {[NoArgs EXCEPT !.project = p, !.repository = r, !.title = t,
                         !.sourceBranch = sb, !.targetBranch = tb,
                         !.description = d, !.reviewers = rv] :
            p \in ProjectVals, r \in RepositoryVals,
            t \in {Undef, Str("T"), Num(1)}, sb \in {Undef, Str("feat")},
            tb \in {Undef, Str("main"), Null}, d \in {Undef, Str("D"), Num(1)},
            rv \in ReviewersVals}
    [] name = "merge_pull_request" ->
         {[a EXCEPT !.message = m, !.strategy = st] :
            a \in RefArgs, m \in {Undef, Str("msg")},
            st \in {Undef, Null, Str("squash")}}
    [] name \in {"decline_pull_request", "delete_pull_request"} ->
         {[a EXCEPT !.message = m] : a \in RefArgs, m \in {Undef, Str("msg")}}
    [] name = "add_comment" ->
         {[a EXCEPT !.text = t, !.parentId = pid] :
            a \in RefArgs, t \in {Undef, Str("hi")}, pid \in {Undef, Num(0), Num(9)}}
    [] name = "get_diff" ->
         {[a EXCEPT !.contextLines = c] : a \in RefArgs, c \in {Undef, Num(0), Num(3)}}
    [] name = "add_inline_comment" ->
         {[a EXCEPT !.text = t, !.filePath = f, !.line = ln, !.lineType = lt,
                    !.startColumn = sc, !.endColumn = ec] :
            a \in NarrowRefArgs, t \in {Undef, Str("hi")}, f \in {Undef, Str("a.ts")},
            ln \in {Undef, Num(12)}, lt \in {Undef, Str("ADDED")},
            sc \in ColumnVals, ec \in ColumnVals}
    [] name = "suggest_code_change" ->
         {[a EXCEPT !.message = m, !.filePath = f, !.line = ln, !.lineType = lt,
                    !.suggestedCode = code] :
            a \in NarrowRefArgs, m \in {Undef, Str("Use foo")},
            f \in {Undef, Str("a.ts")}, ln \in {Undef, Num(12)},
            lt \in {Undef, Str("ADDED")}, code \in SuggestedCodeVals}
    [] OTHER -> RefArgs

\* the names a client may call: the catalog's, one the catalog of another
\* version of the server has, and one that no version has
CallableNames ==
  { "list_repositories", "list_pull_requests", "list_branches",
    "get_repository_details", "create_pull_request", "get_pull_request",
    "merge_pull_request", "decline_pull_request", "add_comment", "get_diff",
    "get_reviews", "add_inline_comment", "suggest_code_change",
    "delete_pull_request", "approve_pull_request", "no_such_tool" }

SuccessBodies ==
  { Body("object", Undef, FALSE, <<>>, ""),
    Body("object", Undef, TRUE,
         <<Activity("COMMENTED", 1), Activity("APPROVED", 2),
           Activity("REVIEWED", 3), Activity("OPENED", 4)>>, ""),
    Body("string", Undef, FALSE, <<>>, "diff --git a/a.ts b/a.ts"),
    Body("null", Undef, FALSE, <<>>, "") }

\* the activity lists of at most n entries; the id of an entry is its place
RECURSIVE ActivityLists(_)
ActivityLists(n) ==
  IF n = 0 THEN {<<>>}
  ELSE ActivityLists(n - 1)
       \cup {Append(l, Activity(a, n)) :
               l \in {x \in ActivityLists(n - 1) : Len(x) = n - 1},
               a \in {"COMMENTED", "APPROVED", "REVIEWED"}}

\* what the activities resource answers with: a page of activities
ActivityBodies ==
  {Body("object", Undef, TRUE, l, "") : l \in ActivityLists(MaxActivities)}

\* the bodies a successful response to the request may carry
ResponseBodies(req) ==
  SuccessBodies
    \cup (IF req.path # <<>> /\ req.path[Len(req.path)] = "activities"
          THEN ActivityBodies ELSE {})

ErrorBodies ==
  { Body("object", Str("Pull request is out of date"), FALSE, <<>>, ""),
    Body("object", Undef, FALSE, <<>>, ""),
    Body("object", Null, FALSE, <<>>, ""),
    Body("string", Undef, FALSE, <<>>, ""),
    Body("null", Undef, FALSE, <<>>, "") }

HttpErrors ==
  { AxiosError("Network Error", FALSE, NoData) }
  \cup { AxiosError("Request failed with status code 409", TRUE, d) : d \in ErrorBodies }

(***************************************************************************)
(* State machine: construction, then tool calls one after another.  A call  *)
(* runs to the request of its handler, waits for the response, and ends     *)
(* with a result envelope or a thrown error.                                *)
(***************************************************************************)
\* request: the arguments as received; args: the same object as the handler
\* has left it; handler: the operation handler that was invoked; raised: the
\* error that reached the catch block; variant: the requests that the other
\* version of the server, given the same call, issues
NoCall ==
  [pc |-> "idle", name |-> "", request |-> NoArgs, args |-> NoArgs,
   handler |-> "", raised |-> NoError, variant |-> <<>>]

\* a catalog entry: the name of the tool and the parameters marked required
Tool(name, required) == [name |-> name, required |-> required]

\* the catalog with a tool of the other version of the server added
Catalog_withApprove ==
  << Tool("list_repositories", {"project"}),
     Tool("list_pull_requests", {"project", "repository"}),
     Tool("list_branches", {"project", "repository"}),
     Tool("get_repository_details", {"project", "repository"}),
     Tool("create_pull_request",
          {"repository", "title", "sourceBranch", "targetBranch"}),
     Tool("get_pull_request", {"repository", "prId"}),
     Tool("merge_pull_request", {"repository", "prId"}),
     Tool("decline_pull_request", {"repository", "prId"}),
     Tool("add_comment", {"repository", "prId", "text"}),
     Tool("get_diff", {"repository", "prId"}),
     Tool("get_reviews", {"repository", "prId"}),
     Tool("add_inline_comment",
          {"repository", "prId", "text", "filePath", "line"}),
     Tool("suggest_code_change",
          {"repository", "prId", "filePath", "line", "suggestedCode"}),
     Tool("delete_pull_request", {"repository", "prId"}),
     Tool("approve_pull_request", {"repository", "prId"}) >>

\* the tools array of the ListTools handler
Catalog ==
  << Tool("list_repositories", {"project"}),
     Tool("list_pull_requests", {"project", "repository"}),
     Tool("list_branches", {"project", "repository"}),
     Tool("get_repository_details", {"project", "repository"}),
     Tool("create_pull_request",
          {"repository", "title", "sourceBranch", "targetBranch"}),
     Tool("get_pull_request", {"repository", "prId"}),
     Tool("merge_pull_request", {"repository", "prId"}),
     Tool("decline_pull_request", {"repository", "prId"}),
     Tool("add_comment", {"repository", "prId", "text"}),
     Tool("get_diff", {"repository", "prId"}),
     Tool("get_reviews", {"repository", "prId"}),
     Tool("add_inline_comment",
          {"repository", "prId", "text", "filePath", "line"}),
     Tool("suggest_code_change",
          {"repository", "prId", "filePath", "line", "suggestedCode"}),
     Tool("delete_pull_request", {"repository", "prId"}) >>

\* no ListTools request is being answered
NotListed == [listed |-> FALSE, tools |-> <<>>]

NoReply == [kind |-> "none", data |-> NoData, error |-> NoError]

NoOutcome == [kind |-> "none", error |-> NoError, content |-> <<>>]

Returned(content) == [kind |-> "result", error |-> NoError, content |-> content]

Thrown(error) == [kind |-> "error", error |-> error, content |-> <<>>]

\* the tool calls that may be in handling at the same time
Slots == 1..MaxCalls

\* a tool call handled concurrently with others: what `call`, `http`, `reply`
\* and `outcome` are for the one call of the sequential server
NoPending ==
  [pc |-> "idle", name |-> "", request |-> NoArgs, args |-> NoArgs,
   handler |-> "", sent |-> <<>>, reply |-> NoReply, outcome |-> NoOutcome]

Init ==
  /\ env \in EnvChoices
  /\ server = [status |-> "new", config |-> NoConfig, api |-> NoApi]
  /\ listing = NotListed
  /\ call = NoCall
  /\ http = <<>>
  /\ reply = NoReply
  /\ outcome = NoOutcome
  /\ pending = [i \in Slots |-> NoPending]

\* new BitbucketServer()
Construct ==
  /\ server.status = "new"
  /\ LET config == LoadConfig(env)
     IN server' = IF ConfigInvalid(config)
                  THEN [status |-> "failed", config |-> config, api |-> NoApi]
                  ELSE [status |-> "running", config |-> config,
                        api |-> CreateApi(config)]
  /\ UNCHANGED <<pending, env, listing, call, http, reply, outcome>>

\* a CallTool request arrives and is handled up to the handler's request
CallTool ==
  /\ server.status = "running"
  /\ call.pc = "idle"
  /\ listing = NotListed
  /\ \E name \in CallableNames : \E args \in ArgsChoices(name) :
       LET d == Dispatch(name, args, server.config, env)
       IN IF d.throws
          THEN /\ call' = [pc |-> "done", name |-> name, request |-> args,
                           args |-> d.args, handler |-> "", raised |-> d.error,
                           variant |-> VariantRequests(name, args, server.config)]
               /\ http' = <<>>
               /\ outcome' = Thrown(CatchError(d.error))
          ELSE /\ call' = [pc |-> "awaiting", name |-> name, request |-> args,
                           args |-> d.args, handler |-> d.handler,
                           raised |-> NoError,
                           variant |-> VariantRequests(name, args, server.config)]
               /\ http' = <<d.req>>
               /\ outcome' = NoOutcome
  /\ UNCHANGED <<pending, env, server, listing, reply>>

\* the request of the handler succeeds
HttpSuccess ==
  /\ call.pc = "awaiting"
  /\ \E data \in ResponseBodies(http[1]) :
       LET r == ShapeResponse(call.handler, data)
       IN /\ reply' = [kind |-> "data", data |-> data, error |-> NoError]
          /\ outcome' = IF r.throws THEN Thrown(CatchError(r.error))
                        ELSE Returned(r.content)
          /\ call' = [call EXCEPT !.pc = "done", !.raised = r.error]
  /\ UNCHANGED <<pending, env, server, listing, http>>

\* a failure that is answered by sending the request once more
HttpFailure_retry ==
  /\ call.pc = "awaiting"
  /\ \E error \in HttpErrors :
       /\ reply' = [kind |-> "error", data |-> NoData, error |-> error]
       /\ IF Len(http) < 2
          THEN /\ http' = Append(http, http[1])
               /\ UNCHANGED <<call, outcome>>
          ELSE /\ outcome' = Thrown(CatchError(error))
               /\ call' = [call EXCEPT !.pc = "done", !.raised = error]
               /\ UNCHANGED http
  /\ UNCHANGED <<pending, env, server, listing>>

\* the request of the handler fails
HttpFailure ==
  /\ call.pc = "awaiting"
  /\ \E error \in HttpErrors :
       /\ reply' = [kind |-> "error", data |-> NoData, error |-> error]
       /\ outcome' = Thrown(CatchError(error))
       /\ call' = [call EXCEPT !.pc = "done", !.raised = error]
  /\ UNCHANGED <<pending, env, server, listing, http>>

\* a call that, once it has its outcome, runs its handler again
Respond_rewind ==
  /\ call.pc = "done"
  /\ IF http = <<>>
     THEN /\ call' = NoCall
          /\ outcome' = NoOutcome
     ELSE /\ call' = [call EXCEPT !.pc = "awaiting"]
          /\ outcome' = NoOutcome
  /\ reply' = NoReply
  /\ UNCHANGED <<pending, env, server, listing, http>>

\* the outcome has been handed to the transport; the next call may arrive
Respond ==
  /\ call.pc = "done"
  /\ call' = NoCall
  /\ http' = <<>>
  /\ reply' = NoReply
  /\ outcome' = NoOutcome
  /\ UNCHANGED <<pending, env, server, listing>>

\* a ListTools request arrives and is answered with the catalog
ListToolsRequest ==
  /\ server.status = "running"
  /\ call.pc = "idle"
  /\ listing = NotListed
  /\ listing' = [listed |-> TRUE, tools |-> Catalog]
  /\ UNCHANGED <<pending, env, server, call, http, reply, outcome>>

\* the catalog has been handed to the transport
ListRespond ==
  /\ listing # NotListed
  /\ listing' = NotListed
  /\ UNCHANGED <<pending, env, server, call, http, reply, outcome>>

Next ==
  \/ Construct \/ CallTool \/ HttpSuccess \/ HttpFailure \/ Respond
  \/ ListToolsRequest \/ ListRespond

Spec == Init /\ [][Next]_vars

(***************************************************************************)
(* Tool calls handled concurrently: the handler is async, so a call is      *)
(* suspended at the await of its HTTP request and other calls run in        *)
(* between.                                                                 *)
(***************************************************************************)
ValidCreate ==
  [NoArgs EXCEPT !.project = Str("PRJ"), !.repository = Str("repo"),
                 !.title = Str("T"), !.sourceBranch = Str("feat"),
                 !.targetBranch = Str("main")]

\* the calls the concurrent clients make
ConcurrentCalls ==
  { [name |-> "create_pull_request", args |-> ValidCreate],
    [name |-> "get_pull_request",
     args |-> [NoArgs EXCEPT !.repository = Str("repo"), !.prId = Num(1)]],
    [name |-> "no_such_tool", args |-> NoArgs] }

\* a handler that works on one arguments object shared by the calls in
\* handling: that of a call still awaiting its response, when there is one
HandlerArgs_shared(i, received) ==
  IF \E j \in Slots \ {i} : pending[j].pc = "awaiting"
  THEN pending[CHOOSE j \in Slots \ {i} : pending[j].pc = "awaiting"].args
  ELSE received

\* const args = request.params.arguments ?? {}: the object the handler of
\* call i reads and writes is the arguments object of its own request
HandlerArgs(i, received) == received

\* call i arrives and is handled up to the await of its request
StartCall(i) ==
  /\ server.status = "running"
  /\ pending[i].pc = "idle"
  /\ \E c \in ConcurrentCalls :
       LET d == Dispatch(c.name, HandlerArgs(i, c.args), server.config, env)
       IN pending' =
            [pending EXCEPT ![i] =
               IF d.throws
               THEN [pc |-> "done", name |-> c.name, request |-> c.args,
                     args |-> d.args, handler |-> "", sent |-> <<>>,
                     reply |-> NoReply, outcome |-> Thrown(CatchError(d.error))]
               ELSE [pc |-> "awaiting", name |-> c.name, request |-> c.args,
                     args |-> d.args, handler |-> d.handler, sent |-> <<d.req>>,
                     reply |-> NoReply, outcome |-> NoOutcome]]
  /\ UNCHANGED <<env, server, listing, call, http, reply, outcome>>

\* the request of call i is answered 2xx and the call resumes
ResumeSuccess(i) ==
  /\ pending[i].pc = "awaiting"
  /\ \E data \in ResponseBodies(pending[i].sent[1]) :
       LET r == ShapeResponse(pending[i].handler, data)
       IN pending' =
            [pending EXCEPT
               ![i].pc = "done",
               ![i].reply = [kind |-> "data", data |-> data, error |-> NoError],
               ![i].outcome = IF r.throws THEN Thrown(CatchError(r.error))
                              ELSE Returned(r.content)]
  /\ UNCHANGED <<env, server, listing, call, http, reply, outcome>>

\* the request of call i fails and the call resumes in the catch block
ResumeFailure(i) ==
  /\ pending[i].pc = "awaiting"
  /\ \E error \in HttpErrors :
       pending' =
         [pending EXCEPT
            ![i].pc = "done",
            ![i].reply = [kind |-> "error", data |-> NoData, error |-> error],
            ![i].outcome = Thrown(CatchError(error))]
  /\ UNCHANGED <<env, server, listing, call, http, reply, outcome>>

\* the outcome of call i has been handed to the transport
FinishCall(i) ==
  /\ pending[i].pc = "done"
  /\ pending' = [pending EXCEPT ![i] = NoPending]
  /\ UNCHANGED <<env, server, listing, call, http, reply, outcome>>

NextConcurrent ==
  \/ Construct
  \/ \E i \in Slots : StartCall(i)
  \/ \E i \in Slots : ResumeSuccess(i)
  \/ \E i \in Slots : ResumeFailure(i)
  \/ \E i \in Slots : FinishCall(i)

SpecConcurrent == Init /\ [][NextConcurrent]_vars

\* the environments of the runs checked for progress: a server with default
\* project and default reviewers, one with neither, one that fails to start
LiveEnvs ==
  { EnvOf(Str("https://bb"), Str("tok"), Undef, Undef, Str("DEF"),
          ReviewersEnv(Alice \o <<",", " ">> \o Bob)),
    EnvOf(Str("https://bb"), Str("tok"), Undef, Undef, Undef, NoReviewersEnv),
    EnvOf(Undef, Str("tok"), Undef, Undef, Str("DEF"), NoReviewersEnv) }

InitLive == Init /\ env \in LiveEnvs

\* every issued HTTP request eventually completes or fails, and every outcome
\* is eventually handed to the transport
SpecLive ==
  /\ InitLive
  /\ [][Next]_vars
  /\ WF_vars(HttpSuccess \/ HttpFailure)
  /\ WF_vars(Respond)

(***************************************************************************)
(* Properties.                                                              *)
(***************************************************************************)
\* a call is being handled or has just ended
InCall == call.pc # "idle"

\* the call has ended with an McpError of the given code, without a request
RejectedWith(code) ==
  /\ call.pc = "done"
  /\ outcome.kind = "error"
  /\ outcome.error.class = "McpError"
  /\ outcome.error.code = code
  /\ http = <<>>

Omitted(v) == v.k = "undefined"

NonEmptyString(v) == v.k = "string" /\ v.s # ""

\* the case labels of the switch
RoutedNames ==
  { "list_repositories", "list_pull_requests", "list_branches",
    "get_repository_details", "create_pull_request", "get_pull_request",
    "merge_pull_request", "decline_pull_request", "add_comment", "get_diff",
    "get_reviews", "add_inline_comment", "suggest_code_change",
    "delete_pull_request" }

PullRequestTools ==
  { "get_pull_request", "merge_pull_request", "decline_pull_request",
    "delete_pull_request", "add_comment", "add_inline_comment",
    "suggest_code_change", "get_diff", "get_reviews" }

ListTools ==
  { "list_repositories", "list_pull_requests", "list_branches",
    "get_repository_details" }

\* C1: a tool call that omits project while no default project is configured
\* ends with an InvalidParams error and issues no HTTP request.
C1_NoProjectRejected ==
  (InCall /\ Omitted(call.request.project)
          /\ ~NonEmptyString(server.config.defaultProject))
    => RejectedWith("InvalidParams")

C1_Witness ==
  /\ call.pc = "done"
  /\ call.name = "get_pull_request"
  /\ Omitted(call.request.project)
  /\ call.request.repository = Str("repo")
  /\ Omitted(server.config.defaultProject)
  /\ outcome.error.code = "InvalidParams"

\* C2 as stated: a call of an unknown tool name ends with MethodNotFound and
\* no HTTP request, whatever its arguments and the configuration.
C2_UnknownAlwaysMethodNotFound ==
  (InCall /\ call.name \notin RoutedNames) => RejectedWith("MethodNotFound")

\* the project of the call resolves: the argument when it is neither
\* undefined nor null, else the default, and the result is truthy
C2_ProjectResolves ==
  IF call.request.project.k \in {"undefined", "null"}
  THEN NonEmptyString(server.config.defaultProject)
  ELSE \/ NonEmptyString(call.request.project)
       \/ call.request.project.k = "number" /\ call.request.project.n # 0

\* C2 amended: a call of an unknown tool name issues no HTTP request; it ends
\* with MethodNotFound when its project resolves and with InvalidParams when
\* it does not.
C2_UnknownRejected ==
  (InCall /\ call.name \notin RoutedNames)
    => IF C2_ProjectResolves THEN RejectedWith("MethodNotFound")
       ELSE RejectedWith("InvalidParams")

C2_Witness ==
  /\ call.pc = "done"
  /\ call.name = "no_such_tool"
  /\ call.request.project = Str("PRJ")
  /\ outcome.error.code = "MethodNotFound"
  /\ outcome.error.message = <<"Unknown tool: ", "no_such_tool">>

\* a create_pull_request request that is valid but for its project
C3_ValidButProject(a) ==
  /\ IsString(a.repository)
  /\ IsString(a.title)
  /\ IsString(a.sourceBranch)
  /\ IsString(a.targetBranch)
  /\ (Omitted(a.description) \/ IsString(a.description))
  /\ (Omitted(a.reviewers) \/ IsArray(a.reviewers))

\* C3: a valid create_pull_request call that omits project while a default
\* project is configured issues one POST to
\* /projects/{defaultProject}/repos/{repository}/pull-requests whose fromRef
\* and toRef carry the default project as project key.
C3_CreateUsesDefaultProject ==
  (InCall /\ call.name = "create_pull_request"
          /\ Omitted(call.request.project)
          /\ NonEmptyString(server.config.defaultProject)
          /\ C3_ValidButProject(call.request))
    => /\ Len(http) = 1
       /\ http[1].method = "POST"
       /\ http[1].path = <<"projects", server.config.defaultProject.s, "repos",
                           call.request.repository.s, "pull-requests">>
       /\ http[1].body.fromRef.repository.project.key = server.config.defaultProject
       /\ http[1].body.toRef.repository.project.key = server.config.defaultProject

\* the names a comma-separated string configures, stated on positions: the
\* stretches between neighbouring commas, each cut down to what lies between
\* its first and last non-blank character, the blank ones left out
C4_Names(chars) ==
  LET n == Len(chars)
      cuts == {0, n + 1} \cup {i \in 1..n : chars[i] = ","}
      next(a) == CHOOSE b \in cuts : b > a /\ \A c \in cuts : c > a => b <= c
      inked(a) == {i \in (a + 1)..(next(a) - 1) : chars[i] \notin {" ", "\t"}}
      first(a) == CHOOSE i \in inked(a) : \A j \in inked(a) : i <= j
      last(a) == CHOOSE i \in inked(a) : \A j \in inked(a) : j <= i
      starts == {a \in cuts : a <= n /\ inked(a) # {}}
      nth(k) == CHOOSE a \in starts : Cardinality({x \in starts : x <= a}) = k
  IN [k \in 1..Cardinality(starts) |-> SubSeq(chars, first(nth(k)), last(nth(k)))]

C4_ValidCreate(a) ==
  /\ NonEmptyString(a.project)
  /\ C3_ValidButProject(a)

C4_DefaultsConfigured ==
  env.BITBUCKET_DEFAULT_REVIEWERS.set /\ env.BITBUCKET_DEFAULT_REVIEWERS.chars # <<>>

\* C4: a valid create_pull_request call whose reviewers is absent or an empty
\* list, with default reviewers configured, sends as reviewer list the
\* configured string split on commas, each entry trimmed, empty entries
\* removed, order kept, each entry as {user: {name: entry}}.
C4_DefaultReviewersSent ==
  (InCall /\ call.name = "create_pull_request"
          /\ C4_ValidCreate(call.request)
          /\ (Omitted(call.request.reviewers) \/ call.request.reviewers = Arr(<<>>))
          /\ C4_DefaultsConfigured)
    => /\ Len(http) = 1
       /\ http[1].body.reviewers.present
       /\ LET names == C4_Names(env.BITBUCKET_DEFAULT_REVIEWERS.chars)
          IN http[1].body.reviewers.list =
               [i \in 1..Len(names) |-> [user |-> [name |-> names[i]]]]

\* "alice, bob" gives alice, then bob
C4_Witness ==
  /\ call.pc = "awaiting"
  /\ call.name = "create_pull_request"
  /\ C4_ValidCreate(call.request)
  /\ call.request.reviewers = Arr(<<>>)
  /\ env.BITBUCKET_DEFAULT_REVIEWERS.chars = Alice \o <<",", " ">> \o Bob
  /\ http[1].body.reviewers.list =
       <<[user |-> [name |-> Alice]], [user |-> [name |-> Bob]]>>

\* C5: a list_repositories, list_pull_requests, list_branches or
\* get_repository_details call that omits project while a default project is
\* configured is not rejected: it issues its GET under
\* /projects/{defaultProject}.
C5_ListUsesDefaultProject ==
  (InCall /\ call.name \in ListTools
          /\ Omitted(call.request.project)
          /\ NonEmptyString(server.config.defaultProject)
          /\ (call.name = "list_repositories"
                \/ NonEmptyString(call.request.repository)))
    => /\ Len(http) = 1
       /\ http[1].method = "GET"
       /\ SubSeq(http[1].path, 1, 2) = <<"projects", server.config.defaultProject.s>>

\* the project segment a call names: its project argument when one is given,
\* the default project otherwise
C6_ProjectSegment ==
  CASE call.request.project.k = "string" -> call.request.project.s
    [] call.request.project.k = "number" -> ToString(call.request.project.n)
    [] OTHER -> server.config.defaultProject.s

\* C6: the request of a pull-request-scoped tool has as project segment of
\* its path the project argument when it is supplied and the configured
\* default project otherwise.
C6_PullRequestProjectSegment ==
  (InCall /\ call.name \in PullRequestTools /\ http # <<>>)
    => /\ Len(http[1].path) >= 6
       /\ http[1].path[1] = "projects"
       /\ http[1].path[2] = C6_ProjectSegment

C6_Witness ==
  /\ call.pc = "awaiting"
  /\ call.name = "merge_pull_request"
  /\ Omitted(call.request.project)
  /\ http[1].path = <<"projects", "DEF", "repos", "repo", "pull-requests", "1", "merge">>

C8_MalformedCreateRejected ==
  (InCall /\ call.name = "create_pull_request"
          /\ \E f \in {"repository", "title", "sourceBranch", "targetBranch"} :
               call.request[f].k # "string")
    => RejectedWith("InvalidParams")

C8_Witness ==
  /\ call.pc = "done"
  /\ call.name = "create_pull_request"
  /\ call.request.project = Str("PRJ")
  /\ call.request.repository = Str("repo")
  /\ call.request.title = Num(1)
  /\ call.request.sourceBranch = Str("feat")
  /\ call.request.targetBranch = Str("main")
  /\ outcome.error.message = <<"Invalid pull request input parameters">>

\* the parameters the catalog marks required, project apart
C9_Required(name) ==
  CASE name = "add_comment" -> {"repository", "prId", "text"}
    [] name = "add_inline_comment" -> {"repository", "prId", "text", "filePath", "line"}
    [] name = "suggest_code_change" ->
         {"repository", "prId", "filePath", "line", "suggestedCode"}
    [] OTHER -> {"repository", "prId"}

\* C9: a call of a pull-request-scoped tool that omits a parameter its
\* catalog entry marks required is rejected before any handler runs, so that
\* no HTTP request is issued.
C9_RequiredParamsChecked ==
  (InCall /\ call.name \in PullRequestTools
          /\ \E f \in C9_Required(call.name) : Omitted(call.request[f]))
    => /\ http = <<>>
       /\ call.handler = ""
       /\ call.pc = "done"
       /\ outcome.kind = "error"

\* the error has a response whose body is an object with a string message
C10_HasRemoteMessage(error) ==
  error.hasResponse /\ error.data.k = "object" /\ error.data.message.k = "string"

\* C10: when the request of a handler fails with an HTTP-client error, the
\* call ends with an InternalError whose message is "Bitbucket API error: "
\* followed by the message of the response body when the error carries a
\* response that has one, and by the message of the client error otherwise.
C10_HttpErrorMapped ==
  (call.pc = "done" /\ reply.kind = "error" /\ reply.error.class = "AxiosError")
    => /\ outcome.kind = "error"
       /\ outcome.error.class = "McpError"
       /\ outcome.error.code = "InternalError"
       /\ outcome.error.message =
            <<"Bitbucket API error: ">>
              \o (IF C10_HasRemoteMessage(reply.error)
                  THEN <<reply.error.data.message.s>>
                  ELSE reply.error.message)

\* C11: an error raised during a tool call that is not an HTTP-client error
\* (the InvalidParams and MethodNotFound of the dispatcher, the TypeError of a
\* handler) is the error the call ends with: same class, same code, same
\* message, never an InternalError built from it.
C11_NonHttpErrorsUnchanged ==
  (call.pc = "done" /\ call.raised.class \notin {"none", "AxiosError"})
    => /\ outcome.kind = "error"
       /\ outcome.error.class = call.raised.class
       /\ outcome.error.code = call.raised.code
       /\ outcome.error.message = call.raised.message
       /\ outcome.error.code # "InternalError"

C11_Witness ==
  /\ call.pc = "done"
  /\ call.raised.class = "McpError"
  /\ call.raised.code = "MethodNotFound"
  /\ outcome.kind = "error"
  /\ outcome.error.code = "MethodNotFound"

\* the decline request that the arguments {project, repository, prId, message}
\* of the call determine; the name of the tool is no part of it
C12_DeclineRequest ==
  [ method |-> "POST",
    path |-> << "projects", C6_ProjectSegment,
                "repos", Template(call.request.repository),
                "pull-requests", Template(call.request.prId), "decline" >>,
    body |-> [version |-> -1, message |-> call.request.message],
    params |-> NoParams,
    accept |-> "" ]

\* C12: delete_pull_request and decline_pull_request, called with the same
\* {project, repository, prId, message}, issue the same request: a POST to
\* .../pull-requests/{prId}/decline with body {version: -1, message}; both are
\* rejected without a request exactly when no project can be resolved.
C12_DeleteIsDecline ==
  (InCall /\ call.name \in {"decline_pull_request", "delete_pull_request"})
    => IF Truthy(Coalesce(call.request.project, server.config.defaultProject))
       THEN http = <<C12_DeclineRequest>>
       ELSE http = <<>> /\ RejectedWith("InvalidParams")

C12_Witness ==
  /\ call.pc = "awaiting"
  /\ call.name = "delete_pull_request"
  /\ call.request.message = Str("msg")
  /\ http[1].method = "POST"
  /\ http[1].path[Len(http[1].path)] = "decline"
  /\ http[1].body = [version |-> -1, message |-> Str("msg")]

\* C13: the body of every merge_pull_request request has version -1 whatever
\* the caller passed, and as strategy the strategy argument when the caller
\* supplied one and "merge-commit" when the caller supplied none.
C13_MergeBody ==
  (InCall /\ call.name = "merge_pull_request" /\ http # <<>>)
    => /\ http[1].body.version = -1
       /\ http[1].body.strategy =
            IF Omitted(call.request.strategy)
            THEN Str("merge-commit") ELSE call.request.strategy

C13_Witness ==
  /\ call.pc = "awaiting"
  /\ call.name = "merge_pull_request"
  /\ call.request.strategy = Str("squash")
  /\ http[1].body.version = -1
  /\ http[1].body.strategy = Str("squash")

\* the places of a list of activities that hold an approval or a review
C14_ReviewPlaces(activities) ==
  {j \in 1..Len(activities) : activities[j].action \in {"APPROVED", "REVIEWED"}}

\* the k-th smallest of a set of places
C14_Place(places, k) ==
  CHOOSE j \in places : Cardinality({i \in places : i < j}) = k - 1

\* C14: get_reviews, answered with an activity list, returns the activities of
\* that list whose action is "APPROVED" or "REVIEWED", each as it was received
\* and in the order of the list: none other is returned, none is dropped.
C14_ReviewsReturned ==
  (/\ call.pc = "done" /\ call.handler = "getReviews"
   /\ reply.kind = "data" /\ reply.data.k = "object" /\ reply.data.hasValues)
    => /\ outcome.kind = "result"
       /\ Len(outcome.content) = 1
       /\ LET returned == outcome.content[1].text.data.values
              received == reply.data.values
              places == C14_ReviewPlaces(received)
          IN /\ Len(returned) = Cardinality(places)
             /\ \A k \in 1..Len(returned) :
                  returned[k] = received[C14_Place(places, k)]

C14_Witness ==
  /\ call.pc = "done"
  /\ call.name = "get_reviews"
  /\ reply.data.values = <<Activity("COMMENTED", 1), Activity("APPROVED", 2),
                           Activity("REVIEWED", 3), Activity("OPENED", 4)>>
  /\ outcome.content[1].text.data.values =
       <<Activity("APPROVED", 2), Activity("REVIEWED", 3)>>

\* C15 as stated: get_diff returns the response body as its text, unchanged,
\* and every other handler returns the JSON serialization of the response
\* body.
C15_OthersSerializeBody ==
  (call.pc = "done" /\ outcome.kind = "result")
    => /\ Len(outcome.content) = 1
       /\ outcome.content[1].text.data = reply.data
       /\ outcome.content[1].text.fmt =
            IF call.name = "get_diff" THEN "raw" ELSE "json"

\* C15: get_diff returns the response body as its single text item, unchanged
\* and not serialized; get_reviews returns the JSON serialization of the list
\* of the approvals and reviews it kept of the body's activity list; every
\* other handler returns the JSON serialization of the response body.
C15_DiffRawOthersSerialized ==
  (call.pc = "done" /\ outcome.kind = "result")
    => /\ Len(outcome.content) = 1
       /\ outcome.content[1].text.fmt =
            IF call.name = "get_diff" THEN "raw" ELSE "json"
       /\ IF call.name = "get_reviews"
          THEN /\ outcome.content[1].text.data.k = "array"
               /\ \A k \in 1..Len(outcome.content[1].text.data.values) :
                    \E j \in C14_ReviewPlaces(reply.data.values) :
                      outcome.content[1].text.data.values[k] = reply.data.values[j]
          ELSE outcome.content[1].text.data = reply.data

C15_Witness ==
  /\ call.pc = "done"
  /\ call.name = "get_diff"
  /\ reply.data.k = "string"
  /\ outcome.content = <<[type |-> "text", text |-> [fmt |-> "raw", data |-> reply.data]]>>

\* C16: the anchor of an inline comment has the column fields only if the
\* caller supplied both startColumn and endColumn, and then with the supplied
\* values; when either is absent the anchor has neither field.
C16_ColumnsOnlyIfBoth ==
  (InCall /\ call.name \in {"add_inline_comment", "suggest_code_change"}
          /\ http # <<>>)
    => LET columns == http[1].body.anchor.columns
       IN /\ columns.present
               => /\ ~Omitted(call.request.startColumn)
                  /\ ~Omitted(call.request.endColumn)
                  /\ columns.startColumn = call.request.startColumn
                  /\ columns.endColumn = call.request.endColumn
          /\ (Omitted(call.request.startColumn) \/ Omitted(call.request.endColumn))
               => columns = [present |-> FALSE, startColumn |-> Undef,
                             endColumn |-> Undef]

C16_Witness ==
  /\ call.pc = "awaiting"
  /\ call.name = "add_inline_comment"
  /\ call.request.startColumn = Num(5)
  /\ Omitted(call.request.endColumn)
  /\ ~http[1].body.anchor.columns.present

\* the lines of the suggested code of the call
C17_CodeLines ==
  IF call.request.suggestedCode.k = "text"
  THEN call.request.suggestedCode.l
  ELSE << <<call.request.suggestedCode.s>> >>

\* the title line: the message of the call, else the generated title
C17_Title ==
  IF NonEmptyString(call.request.message)
  THEN <<call.request.message.s>>
  ELSE << "Suggestion for ", Template(call.request.filePath),
          " at line ", Template(call.request.line) >>

\* the call carries a suggestion: a string that is not empty
C17_SuggestionPresent ==
  \/ NonEmptyString(call.request.suggestedCode)
  \/ /\ call.request.suggestedCode.k = "text"
     /\ call.request.suggestedCode.l # <<>>

\* C17: the comment text of a suggest_code_change call with a suggestion is
\* the title line (the message, else "Suggestion for <filePath> at line
\* <line>"), a fenced diff block holding each line of suggestedCode prefixed
\* "+ ", and a second fenced block, labelled "Suggested code:", holding
\* suggestedCode as it is; no line of it is a "- " line.
C17_SuggestionText ==
  (InCall /\ call.name = "suggest_code_change" /\ http # <<>>
          /\ C17_SuggestionPresent)
    => LET text == http[1].body.text
       IN /\ text.k = "text"
          /\ text.l =
               << C17_Title, <<>>, <<Fence, "diff">> >>
               \o [i \in 1..Len(C17_CodeLines) |-> <<"+ ">> \o C17_CodeLines[i]]
               \o << <<Fence>>, <<>>, <<"Suggested code:">>, <<Fence>> >>
               \o C17_CodeLines
               \o << <<Fence>> >>
          /\ \A i \in 1..Len(text.l) : text.l[i] = <<>> \/ text.l[i][1] # "- "

C17_Witness ==
  /\ call.pc = "awaiting"
  /\ call.name = "suggest_code_change"
  /\ call.request.suggestedCode = Str("foo();")
  /\ call.request.message = Str("Use foo")
  /\ http[1].body.text.l =
       << <<"Use foo">>, <<>>, <<Fence, "diff">>, <<"+ ", "foo();">>, <<Fence>>,
          <<>>, <<"Suggested code:">>, <<Fence>>, <<"foo();">>, <<Fence>> >>

\* the text of a result item is a string: a JSON serialization, or a response
\* body passed on as it is that is a string
C18_StringText(text) ==
  text.fmt = "json" \/ (text.fmt = "raw" /\ text.data.k = "string")

\* C18: a tool call whose HTTP request succeeded returns an envelope whose
\* content is exactly one item, of type "text" and with a string as text.
C18_SuccessEnvelope ==
  (call.pc = "done" /\ reply.kind = "data")
    => /\ outcome.kind = "result"
       /\ Len(outcome.content) = 1
       /\ outcome.content[1].type = "text"
       /\ C18_StringText(outcome.content[1].text)

\* the operation names of the catalog surface
C19_CatalogSurface ==
  { "list_repositories", "list_pull_requests", "list_branches",
    "get_repository_details", "create_pull_request", "get_pull_request",
    "merge_pull_request", "decline_pull_request", "delete_pull_request",
    "add_comment", "add_inline_comment", "suggest_code_change", "get_diff",
    "get_reviews", "get_pull_request_comments", "approve_pull_request",
    "unapprove_pull_request", "get_repository_archive" }

\* C19: every listing of the catalog holds the eighteen operation names of
\* the catalog surface, each exactly once.
C19_EighteenNames ==
  listing.listed
    => /\ {listing.tools[i].name : i \in 1..Len(listing.tools)} = C19_CatalogSurface
       /\ Len(listing.tools) = Cardinality(C19_CatalogSurface)

\* a variable of the environment is unset or the empty string
C20_Empty(v) == v.k = "undefined" \/ (v.k = "string" /\ v.s = "")

\* the configurations the server must refuse: no base URL, or no token and no
\* complete pair of user name and password
C20_ConfigurationError ==
  \/ C20_Empty(env.BITBUCKET_URL)
  \/ /\ C20_Empty(env.BITBUCKET_TOKEN)
     /\ (C20_Empty(env.BITBUCKET_USERNAME) \/ C20_Empty(env.BITBUCKET_PASSWORD))

\* C20: construction fails exactly when the base URL is empty, or the token is
\* empty and user name and password are not both non-empty; the failed server
\* has no client and serves no request: no tool call, no listing, no HTTP
\* request, no outcome.
C20_ConstructionFails ==
  server.status # "new"
    => /\ server.status = "failed" <=> C20_ConfigurationError
       /\ server.status = "failed"
            => /\ server.api = NoApi
               /\ call = NoCall
               /\ listing = NotListed
               /\ http = <<>>
               /\ outcome = NoOutcome

C20_Witness ==
  /\ server.status = "failed"
  /\ env.BITBUCKET_URL = Str("https://bb")
  /\ Omitted(env.BITBUCKET_TOKEN)
  /\ env.BITBUCKET_USERNAME = Str("u")
  /\ env.BITBUCKET_PASSWORD = Str("")
  /\ server.api = NoApi

\* C21: every request of a constructed server carries a credential matching
\* the configuration: a bearer Authorization header, holding the token, if and
\* only if a non-empty token is configured; basic-auth credentials, holding
\* user name and password, if and only if both are non-empty; and at least
\* one of the two.
C21_CredentialOnEveryRequest ==
  http # <<>>
    => LET sent == Authorization(server.api)
       IN /\ server.status = "running"
          /\ (sent.scheme = "Bearer" /\ sent.token = env.BITBUCKET_TOKEN)
               <=> ~C20_Empty(env.BITBUCKET_TOKEN)
          /\ (/\ sent.scheme = "Basic"
              /\ sent.user = env.BITBUCKET_USERNAME
              /\ sent.password = env.BITBUCKET_PASSWORD)
               <=> (~C20_Empty(env.BITBUCKET_USERNAME)
                      /\ ~C20_Empty(env.BITBUCKET_PASSWORD))
          /\ sent.scheme # "none"

\* the last segments of the path of each operation of the REST table, after
\* /projects/{p}/repos/{r}/pull-requests/{id}
C22_Tail ==
  CASE call.name = "get_pull_request" -> <<>>
    [] call.name = "merge_pull_request" -> <<"merge">>
    [] call.name \in {"decline_pull_request", "delete_pull_request"} -> <<"decline">>
    [] call.name \in {"add_comment", "add_inline_comment", "suggest_code_change"} ->
         <<"comments">>
    [] call.name = "get_diff" -> <<"diff">>
    [] call.name = "get_reviews" -> <<"activities">>
    [] OTHER -> <<>>

\* the path of the REST table for the call, with {p} the resolved project,
\* {r} the repository and {id} the prId of the call
C22_Path ==
  LET repos == <<"projects", C6_ProjectSegment, "repos">>
      repo == repos \o <<Template(call.request.repository)>>
  IN CASE call.name = "list_repositories" -> repos
       [] call.name = "get_repository_details" -> repo
       [] call.name = "list_pull_requests" -> repo \o <<"pull-requests">>
       [] call.name = "list_branches" -> repo \o <<"branches">>
       [] call.name = "create_pull_request" -> repo \o <<"pull-requests">>
       [] OTHER -> repo \o <<"pull-requests", Template(call.request.prId)>>
                        \o C22_Tail

C22_Method ==
  IF call.name \in { "create_pull_request", "merge_pull_request",
                     "decline_pull_request", "delete_pull_request",
                     "add_comment", "add_inline_comment", "suggest_code_change" }
  THEN "POST" ELSE "GET"

\* C22: the request of every operation has the method and the path of the
\* REST table, with {p}, {r}, {id} the resolved project, the repository and
\* the prId of the call; get_diff asks for text/plain.
C22_RestTable ==
  (InCall /\ http # <<>>)
    => /\ http[1].method = C22_Method
       /\ http[1].path = C22_Path
       /\ (call.name = "get_diff") => http[1].accept = "text/plain"

C22_Witness ==
  /\ call.pc = "awaiting"
  /\ call.name = "get_reviews"
  /\ Omitted(call.request.project)
  /\ http[1].method = "GET"
  /\ http[1].path =
       <<"projects", "DEF", "repos", "repo", "pull-requests", "1", "activities">>

\* what call p does when it is the only call: its arguments after the
\* handler, its requests, and its outcome for the reply it got
C23_Alone(p) ==
  LET d == Dispatch(p.name, p.request, LoadConfig(env), env)
  IN [ args |-> d.args,
       sent |-> IF d.throws THEN <<>> ELSE <<d.req>>,
       outcome |->
         IF d.throws THEN Thrown(CatchError(d.error))
         ELSE CASE p.reply.kind = "none" -> NoOutcome
                [] p.reply.kind = "error" -> Thrown(CatchError(p.reply.error))
                [] OTHER ->
                     LET r == ShapeResponse(d.handler, p.reply.data)
                     IN IF r.throws THEN Thrown(CatchError(r.error))
                        ELSE Returned(r.content) ]

\* C23: whatever the interleaving of the calls in handling, each call issues
\* the request and ends with the outcome it has when it runs alone, and the
\* configuration and the client stay those of the construction.
C23_CallsIndependent ==
  /\ \A i \in Slots :
       pending[i].pc # "idle"
         => /\ pending[i].sent = C23_Alone(pending[i]).sent
            /\ pending[i].args = C23_Alone(pending[i]).args
            /\ pending[i].outcome = C23_Alone(pending[i]).outcome
  /\ server.status = "running"
       => /\ server.config = LoadConfig(env)
          /\ server.api = CreateApi(LoadConfig(env))

C23_Witness ==
  /\ pending[1].pc = "awaiting"
  /\ pending[1].name = "create_pull_request"
  /\ Omitted(pending[1].request.reviewers)
  /\ pending[1].args.reviewers = Arr(<<Alice, Bob>>)
  /\ pending[2].pc = "done"
  /\ pending[2].name = "get_pull_request"
  /\ pending[2].outcome.kind = "result"

\* the phase of the call: Resolving and Validating are passed within the step
\* that receives the call, Executing is the await of the handler's request,
\* Responding is the call with its outcome
C24_Phase ==
  CASE call.pc = "idle" -> 0
    [] call.pc = "awaiting" -> 3
    [] OTHER -> 4

C24_Terminal == call.pc = "done" /\ outcome.kind \in {"result", "error"}

\* a step of a call in handling goes forward, keeps the call it belongs to,
\* and leaves an outcome that was reached as it is; Executing is entered only
\* by the step that receives the call
C24_Step ==
  /\ (call.pc # "idle" /\ call'.pc # "idle")
       => /\ C24_Phase' >= C24_Phase
          /\ call'.name = call.name
          /\ call'.request = call.request
  /\ (call.pc = "done" /\ call'.pc # "idle") => outcome' = outcome
  /\ call'.pc = "awaiting" => (call.pc \in {"idle", "awaiting"} /\ call'.handler # "")
  /\ (call.pc = "idle" /\ call'.pc = "done") => (call'.handler = "" /\ http' = <<>>)

\* C24: a received call moves only forward through its phases; provided
\* every issued HTTP request completes or fails, it reaches a terminal
\* outcome, a result envelope or an error and never both; a call rejected
\* while resolving or validating never executes a handler.
C24_ForwardToOneOutcome ==
  /\ [][C24_Step]_vars
  /\ [](call.pc = "done" => C24_Terminal)
  /\ [](call.pc = "awaiting" => outcome = NoOutcome)
  /\ (call.pc = "awaiting") ~> C24_Terminal

C24_Witness ==
  /\ call.pc = "done"
  /\ call.handler = "getPullRequest"
  /\ reply.kind = "data"
  /\ outcome.kind = "result"

\* C25: the anchor of every inline comment, of add_inline_comment and of
\* suggest_code_change, has diffType "EFFECTIVE", fileType "TO", the filePath
\* of the call as path, the line of the call as line, and as lineType the
\* lineType of the call when it has one and "CONTEXT" when it has none.
C25_AnchorFields ==
  (InCall /\ call.name \in {"add_inline_comment", "suggest_code_change"}
          /\ http # <<>>)
    => LET anchor == http[1].body.anchor
       IN /\ anchor.diffType = "EFFECTIVE"
          /\ anchor.fileType = "TO"
          /\ anchor.path = call.request.filePath
          /\ anchor.line = call.request.line
          /\ anchor.lineType = IF Omitted(call.request.lineType)
                               THEN Str("CONTEXT") ELSE call.request.lineType

C25_Witness ==
  /\ call.pc = "awaiting"
  /\ call.name = "add_inline_comment"
  /\ call.request.lineType = Str("ADDED")
  /\ http[1].body.anchor.lineType = Str("ADDED")
  /\ http[1].body.anchor.path = Str("a.ts")
  /\ http[1].body.anchor.line = Num(12)

\* C26: when add_inline_comment is called with startColumn and endColumn both
\* integers, 0 included, the anchor has both fields with the values of the
\* call.
C26_BothColumnsKept ==
  (InCall /\ call.name = "add_inline_comment" /\ http # <<>>
          /\ call.request.startColumn.k = "number"
          /\ call.request.endColumn.k = "number")
    => http[1].body.anchor.columns =
         [ present |-> TRUE, startColumn |-> call.request.startColumn,
           endColumn |-> call.request.endColumn ]

\* the names the catalog advertises
C27_Advertised == {Catalog[i].name : i \in 1..Len(Catalog)}

\* the value of a parameter is of the type the catalog gives the parameter
C27_WellTyped(param, v) ==
  CASE param \in {"prId", "line"} -> v.k = "number"
    [] param = "suggestedCode" -> NonEmptyString(v) \/ v.k = "text"
    [] OTHER -> NonEmptyString(v)

\* the call has valid arguments: the project and every required parameter
\* of its tool are supplied with their types, the optional ones of
\* create_pull_request are omitted or of their types
C27_ValidArguments ==
  /\ \A i \in 1..Len(Catalog) :
       Catalog[i].name = call.name
         => \A param \in Catalog[i].required \cup {"project"} :
              C27_WellTyped(param, call.request[param])
  /\ Omitted(call.request.description) \/ IsString(call.request.description)
  /\ Omitted(call.request.reviewers) \/ IsArray(call.request.reviewers)

\* C27: the names the catalog advertises are the names the dispatcher routes:
\* a listing holds exactly the routed names, each once; a call of an
\* advertised name never ends as an unknown tool and, with valid arguments,
\* reaches its handler; a call that reaches a handler has an advertised name.
C27_CatalogIsRouted ==
  /\ listing.listed
       => /\ {listing.tools[i].name : i \in 1..Len(listing.tools)} = RoutedNames
          /\ \A i, j \in 1..Len(listing.tools) :
               listing.tools[i].name = listing.tools[j].name => i = j
  /\ (InCall /\ call.name \in C27_Advertised)
       => /\ ~RejectedWith("MethodNotFound")
          /\ C27_ValidArguments => (call.handler # "" /\ http # <<>>)
  /\ (InCall /\ call.handler # "") => call.name \in C27_Advertised

C27_Witness ==
  /\ call.pc = "awaiting"
  /\ call.name = "suggest_code_change"
  /\ call.name \in C27_Advertised
  /\ C27_ValidArguments
  /\ call.handler = "addInlineComment"

\* no default reviewers exist: the variable is unset or empty
C28_NoDefaults ==
  ~env.BITBUCKET_DEFAULT_REVIEWERS.set \/ env.BITBUCKET_DEFAULT_REVIEWERS.chars = <<>>

\* C28: a create_pull_request call with a non-empty list of reviewers sends
\* that list, in its order, each name as {user: {name}}, whatever the default
\* reviewers are; a call without reviewers, when no default reviewers exist,
\* sends no reviewer list.
C28_SuppliedReviewersSent ==
  (InCall /\ call.name = "create_pull_request" /\ http # <<>>)
    => /\ (IsArray(call.request.reviewers) /\ Len(call.request.reviewers.l) > 0)
            => /\ http[1].body.reviewers.present
               /\ Len(http[1].body.reviewers.list) = Len(call.request.reviewers.l)
               /\ \A i \in 1..Len(call.request.reviewers.l) :
                    http[1].body.reviewers.list[i] =
                      [user |-> [name |-> call.request.reviewers.l[i]]]
       /\ (Omitted(call.request.reviewers) /\ C28_NoDefaults)
            => ~http[1].body.reviewers.present

C28_Witness ==
  /\ call.pc = "awaiting"
  /\ call.name = "create_pull_request"
  /\ call.request.reviewers = Arr(<<Bob, Alice>>)
  /\ ~C28_NoDefaults
  /\ http[1].body.reviewers.list =
       << [user |-> [name |-> Bob]], [user |-> [name |-> Alice]] >>

\* C29: the contextLines query parameter of a get_diff request is the
\* contextLines of the call whenever the call has one, 0 included, and 10
\* only when the call has none.
C29_ContextLinesSent ==
  (InCall /\ call.name = "get_diff" /\ http # <<>>)
    => http[1].params.contextLines =
         IF Omitted(call.request.contextLines)
         THEN Num(10) ELSE call.request.contextLines

C29_Witness ==
  /\ call.pc = "awaiting"
  /\ call.name = "get_diff"
  /\ call.request.contextLines = Num(0)
  /\ http[1].params.contextLines = Num(0)

\* C30: for every tool name that both versions of the server have, and every
\* call, the two versions issue the same request (method, path, body) or
\* neither issues one.
C30_VariantsInterchangeable ==
  (InCall /\ call.name \in RoutedNames)
    => \/ http = <<>> /\ call.variant = <<>>
       \/ /\ http # <<>> /\ call.variant # <<>>
          /\ call.variant[1].method = http[1].method
          /\ call.variant[1].path = http[1].path
          /\ call.variant[1].body = http[1].body

====
